---- MODULE Spec2Model ----
(***************************************************************************)
(* Model of the college-portal core: the conversational RAG engine         *)
(* (Minor/services/rag_engine.py) and the question generator               *)
(* (Minor/services/question_generator.py).                                 *)
(*                                                                         *)
(* The three external systems (LLM provider, embedding model + vector      *)
(* store retrieval) are opaque: every call to one of them either fails     *)
(* or returns a value chosen nondeterministically from a small set.        *)
(***************************************************************************)
EXTENDS Integers, Sequences, FiniteSets, TLC

VARIABLES
    store,        \* RAGEngine.store: session id -> list of chat messages
    vectorstore,  \* the Chroma collection: list of chunks, in store order
    pc,           \* per client: position inside the operation in flight
    call,         \* per client: locals of the operation in flight
    trace,        \* per client: external calls issued by the operation in flight
    ret,          \* per client: what the operation handed back to its caller
    ncalls,       \* number of answer_query calls started so far
    answered      \* history variable: the answer_query calls that returned a result,
                  \* in the order they returned

vars == <<store, vectorstore, pc, call, trace, ret, ncalls, answered>>

---------------------------------------------------------------------------
(* Bounds of the model *)

MaxCalls == 2      \* answer_query calls per behaviour
MaxChunks == 2     \* chunks in the vector store of the engine specification

---------------------------------------------------------------------------
(* Small helpers *)

Range(s) == {s[i] : i \in 1..Len(s)}

Min(a, b) == IF a < b THEN a ELSE b

SeqsUpTo(S, n) == UNION {[1..k -> S] : k \in 0..n}

\* every list that enumerates the set S once (the orders list(set(...)) may give)
ListsOf(S) == {l \in [1..Cardinality(S) -> S] : Range(l) = S}

---------------------------------------------------------------------------
(* Values *)

\* the UI sessions that share the one engine
Clients == {"c1", "c2"}
SessionIds == {"s1", "s2"}
Queries == {"q1", "q2"}
Answers == {"a1", "a2"}
\* what the reformulation LLM may return for a query: the query as is, or a rewrite
Standalone(query) == {query, "standalone"}

DocIds == {"doc1", "doc2"}
\* doc ids a caller may ask for: the stored ones and one no chunk carries
RequestedDocIds == DocIds \cup {"docX"}
MaxIds == 2
DocumentIdLists == SeqsUpTo(RequestedDocIds, MaxIds)
ChunkMetas == {[doc_id |-> "doc1", source |-> "a.pdf"],
               [doc_id |-> "doc2", source |-> "b.pdf"]}

Chunk(i, md) == [id |-> i, page_content |-> ToString(i), metadata |-> md]

\* a collection whose i-th chunk carries metadata mds[i]
Collection(mds) == [i \in 1..Len(mds) |-> Chunk(i, mds[i])]

HumanMessage(content) == [type |-> "human", content |-> content]
AIMessage(content) == [type |-> "ai", content |-> content]

\* detached: the history object the call holds is no longer the one in store
NoCall == [op |-> "none", arg |-> "", query |-> "", session_id |-> "",
           chat_history |-> <<>>, standalone |-> "", context |-> <<>>, answer |-> "",
           detached |-> FALSE]
NoRet == [op |-> "none", status |-> "none", value |-> "none"]

Returned(op, value) == [op |-> op, status |-> "ok", value |-> value]
Raised(op) == [op |-> op, status |-> "raised", value |-> "none"]

\* one request to an external system, as the provider (or a test double) sees it
ExternalCall(kind, chat_history, input, context) ==
    [kind |-> kind, chat_history |-> chat_history, input |-> input,
     context |-> context, outcome |-> "ok", response |-> ""]
Failed(issued) == [issued EXCEPT !.outcome = "failed"]
Responded(issued, response) == [issued EXCEPT !.response = response]

---------------------------------------------------------------------------
(* RAGEngine.get_session_history: create the history on first use *)

\* faulty variant: a fresh history on every call
get_session_history_fresh(st, session_id) == (session_id :> <<>>) @@ st

get_session_history(st, session_id) ==
    IF session_id \notin DOMAIN st THEN st @@ (session_id :> <<>>) ELSE st

\* faulty variant: one message list shared by the histories of all sessions
add_message_shared(st, session_id, message) ==
    [s \in DOMAIN st |-> Append(st[s], message)]

\* ChatMessageHistory.add_message on the history of session_id
add_message(st, session_id, message) ==
    [st EXCEPT ![session_id] = Append(@, message)]

\* retriever.invoke: the default top-k most similar chunks, in similarity order
DefaultK == 4
Retrievals(vs) ==
    {r \in [1..Min(DefaultK, Len(vs)) -> Range(vs)] :
        \A i, j \in DOMAIN r : i # j => r[i] # r[j]}

\* dict.get(key, default) on a chunk's metadata
MetadataGet(md, key, default) == IF key \in DOMAIN md THEN md[key] ELSE default

\* the set built at rag_engine.py:141-144
SourceSet(context) ==
    {MetadataGet(context[i].metadata, "source", "Unknown") : i \in 1..Len(context)}

\* faulty variant: the sources are listed without set(...)
SourcesOfNoSet(context) ==
    {[i \in 1..Len(context) |-> MetadataGet(context[i].metadata, "source", "Unknown")]}

\* the lists `sources` may be: [] when nothing was retrieved, else list(set(...))
SourcesOf(context) ==
    IF context # <<>> THEN ListsOf(SourceSet(context)) ELSE {<<>>}

---------------------------------------------------------------------------
(* answer_query, one action per step of the chain *)

Idle(c) == pc[c] = "idle"

\* RunnableWithMessageHistory: resolve the session history and load its messages
AnswerQueryBegin(c, query, session_id) ==
    /\ Idle(c)
    /\ ncalls < MaxCalls
    /\ LET st == get_session_history(store, session_id) IN
         /\ store' = st
         /\ call' = [call EXCEPT ![c] = [NoCall EXCEPT !.op = "answer_query",
                                            !.query = query,
                                            !.session_id = session_id,
                                            !.chat_history = st[session_id]]]
    /\ pc' = [pc EXCEPT ![c] = "reformulate"]
    /\ trace' = [trace EXCEPT ![c] = <<>>]
    /\ ret' = [ret EXCEPT ![c] = NoRet]
    /\ ncalls' = ncalls + 1
    /\ UNCHANGED <<vectorstore, answered>>

\* faulty variant: the exception is swallowed and an apology is returned
FailSwallowed(c, issued) ==
    /\ trace' = [trace EXCEPT ![c] = Append(@, Failed(issued))]
    /\ ret' = [ret EXCEPT ![c] = Returned(call[c].op,
                  [answer |-> "Sorry, I encountered an issue and couldn't find an answer.",
                   sources |-> <<>>, mode |-> "qa"])]
    /\ pc' = [pc EXCEPT ![c] = "done"]
    /\ UNCHANGED <<store, vectorstore, call, ncalls, answered>>

\* the exception leaves answer_query through `except ...: raise`
Fail(c, issued) ==
    /\ trace' = [trace EXCEPT ![c] = Append(@, Failed(issued))]
    /\ ret' = [ret EXCEPT ![c] = Raised(call[c].op)]
    /\ pc' = [pc EXCEPT ![c] = "done"]
    /\ UNCHANGED <<store, vectorstore, call, ncalls, answered>>

\* get_docs, first half: history_aware_query_chain.invoke(input_dict)
Reformulate(c) ==
    /\ pc[c] = "reformulate"
    /\ LET issued == ExternalCall("llm_reformulate", call[c].chat_history,
                                  call[c].query, <<>>) IN
         \/ Fail(c, issued)
         \/ \E q \in Standalone(call[c].query) :
              /\ call' = [call EXCEPT ![c].standalone = q]
              /\ trace' = [trace EXCEPT ![c] = Append(@, issued)]
              /\ pc' = [pc EXCEPT ![c] = "retrieve"]
              /\ UNCHANGED <<store, vectorstore, ret, ncalls, answered>>

\* get_docs, second half: retriever.invoke(query)
Retrieve(c) ==
    /\ pc[c] = "retrieve"
    /\ LET issued == ExternalCall("retriever", <<>>, call[c].standalone, <<>>) IN
         \/ Fail(c, issued)
         \/ \E docs \in Retrievals(vectorstore) :
              /\ call' = [call EXCEPT ![c].context = docs]
              /\ trace' = [trace EXCEPT ![c] = Append(@, issued)]
              /\ pc' = [pc EXCEPT ![c] = "answer"]
              /\ UNCHANGED <<store, vectorstore, ret, ncalls, answered>>

\* faulty variant: the answer prompt is filled from the live history
AnswerReadsStore(c) ==
    /\ pc[c] = "answer"
    /\ LET issued == ExternalCall("llm_answer", store[call[c].session_id],
                                  call[c].query, call[c].context) IN
         \/ Fail(c, issued)
         \/ \E a \in Answers :
              /\ call' = [call EXCEPT ![c].answer = a]
              /\ trace' = [trace EXCEPT ![c] = Append(@, issued)]
              /\ pc' = [pc EXCEPT ![c] = "add_user"]
              /\ UNCHANGED <<store, vectorstore, ret, ncalls, answered>>

\* question_answer_chain: the answer LLM call
Answer(c) ==
    /\ pc[c] = "answer"
    /\ LET issued == ExternalCall("llm_answer", call[c].chat_history,
                                  call[c].query, call[c].context) IN
         \/ Fail(c, issued)
         \/ \E a \in Answers :
              /\ call' = [call EXCEPT ![c].answer = a]
              /\ trace' = [trace EXCEPT ![c] = Append(@, issued)]
              /\ pc' = [pc EXCEPT ![c] = "add_user"]
              /\ UNCHANGED <<store, vectorstore, ret, ncalls, answered>>

\* RunnableWithMessageHistory on chain end: add_messages([input, output]),
\* which appends the two messages one after the other to the history object
\* the call resolved at its start
AddUserMessage(c) ==
    /\ pc[c] = "add_user"
    /\ store' = IF call[c].detached THEN store
                ELSE add_message(store, call[c].session_id, HumanMessage(call[c].query))
    /\ pc' = [pc EXCEPT ![c] = "add_ai"]
    /\ UNCHANGED <<vectorstore, call, trace, ret, ncalls, answered>>

AddAIMessage(c) ==
    /\ pc[c] = "add_ai"
    /\ store' = IF call[c].detached THEN store
                ELSE add_message(store, call[c].session_id, AIMessage(call[c].answer))
    /\ pc' = [pc EXCEPT ![c] = "sources"]
    /\ UNCHANGED <<vectorstore, call, trace, ret, ncalls, answered>>

\* rag_engine.py:139-150: collect the sources and return
AnswerQueryReturn(c) ==
    /\ pc[c] = "sources"
    /\ \E sources \in SourcesOf(call[c].context) :
         ret' = [ret EXCEPT ![c] = Returned("answer_query",
                    [answer |-> call[c].answer, sources |-> sources, mode |-> "qa"])]
    /\ answered' = Append(answered, [session_id |-> call[c].session_id,
                                      query |-> call[c].query,
                                      answer |-> call[c].answer])
    /\ pc' = [pc EXCEPT ![c] = "done"]
    /\ UNCHANGED <<store, vectorstore, call, trace, ncalls>>

---------------------------------------------------------------------------
(* get_documents_context *)

MaxContextChunks == 20

\* the loop at rag_engine.py:171-173 from index i on: keep the text of every
\* chunk whose metadata is non-empty and whose doc_id is in document_ids
RECURSIVE FilterChunks(_, _, _, _)
FilterChunks(all_data, document_ids, i, all_chunks) ==
    IF i > Len(all_data) THEN all_chunks
    ELSE LET metadata == all_data[i].metadata IN
         FilterChunks(all_data, document_ids, i + 1,
            IF /\ DOMAIN metadata # {}
               /\ MetadataGet(metadata, "doc_id", "None") \in Range(document_ids)
            THEN Append(all_chunks, all_data[i].page_content)
            ELSE all_chunks)

\* faulty variant: the cap is forgotten
SliceAll(l, n) == l

\* l[:n]
Slice(l, n) == SubSeq(l, 1, Min(n, Len(l)))

\* sep.join(l)
RECURSIVE Join(_, _)
Join(sep, l) ==
    IF l = <<>> THEN ""
    ELSE IF Len(l) = 1 THEN l[1]
    ELSE l[1] \o sep \o Join(sep, Tail(l))

\* the value returned when collection.get succeeded with all_data
DocumentsContext(all_data, document_ids) ==
    IF all_data = <<>> THEN ""
    ELSE Join("\n\n", Slice(FilterChunks(all_data, document_ids, 1, <<>>),
                            MaxContextChunks))

\* an atomic operation: the client goes from idle to done
Complete(c, op, arg, issued, result) ==
    /\ Idle(c)
    /\ call' = [call EXCEPT ![c] = [NoCall EXCEPT !.op = op, !.arg = arg]]
    /\ trace' = [trace EXCEPT ![c] = issued]
    /\ ret' = [ret EXCEPT ![c] = result]
    /\ pc' = [pc EXCEPT ![c] = "done"]
    /\ UNCHANGED <<store, ncalls, answered>>

GetDocumentsContext(c, document_ids) ==
    LET issued == ExternalCall("collection_get", <<>>, "", <<>>) IN
    /\ Idle(c)
    /\ UNCHANGED vectorstore
    /\ \/ Complete(c, "get_documents_context", document_ids, <<Failed(issued)>>,
                   Returned("get_documents_context", ""))
       \/ Complete(c, "get_documents_context", document_ids, <<issued>>,
                   Returned("get_documents_context",
                            DocumentsContext(vectorstore, document_ids)))

---------------------------------------------------------------------------
(* check_vectorstore, check_llm *)

OperationalChunks(count) == "operational (" \o ToString(count) \o " chunks)"

\* faulty variant: no try/except around the count
CheckVectorstoreRaises(c) ==
    LET issued == ExternalCall("collection_count", <<>>, "", <<>>) IN
    /\ Idle(c)
    /\ UNCHANGED vectorstore
    /\ \/ Complete(c, "check_vectorstore", "", <<Failed(issued)>>,
                   Raised("check_vectorstore"))
       \/ Complete(c, "check_vectorstore", "", <<issued>>,
                   Returned("check_vectorstore", OperationalChunks(Len(vectorstore))))

CheckVectorstore(c) ==
    LET issued == ExternalCall("collection_count", <<>>, "", <<>>) IN
    /\ Idle(c)
    /\ UNCHANGED vectorstore
    /\ \/ Complete(c, "check_vectorstore", "", <<Failed(issued)>>,
                   Returned("check_vectorstore", "unavailable"))
       \/ Complete(c, "check_vectorstore", "", <<issued>>,
                   Returned("check_vectorstore", OperationalChunks(Len(vectorstore))))

CheckLLM(c) ==
    LET issued == ExternalCall("llm_hello", <<>>, "Hello", <<>>) IN
    /\ Idle(c)
    /\ UNCHANGED vectorstore
    /\ \/ Complete(c, "check_llm", "", <<Failed(issued)>>,
                   Returned("check_llm", "unavailable"))
       \/ Complete(c, "check_llm", "", <<issued>>,
                   Returned("check_llm", "operational"))

---------------------------------------------------------------------------
(* delete_document *)

\* faulty variant: the where filter is dropped
IdsOfAll(vs, doc_id) == [i \in 1..Len(vs) |-> vs[i].id]

\* vectorstore.get(where={"doc_id": doc_id})['ids']
IdsWhere(vs, doc_id) ==
    LET hits == SelectSeq(vs, LAMBDA ch :
                    MetadataGet(ch.metadata, "doc_id", "None") = doc_id)
    IN [i \in 1..Len(hits) |-> hits[i].id]

\* vectorstore.delete(ids=ids)
Delete(vs, ids) == SelectSeq(vs, LAMBDA ch : ch.id \notin Range(ids))

DeleteDocument(c, doc_id) ==
    LET get == ExternalCall("vectorstore_get", <<>>, doc_id, <<>>)
        ids == IdsWhere(vectorstore, doc_id)
        delete == ExternalCall("vectorstore_delete", <<>>, ids, <<>>)
    IN
    /\ Idle(c)
    /\ \/ /\ Complete(c, "delete_document", doc_id, <<Failed(get)>>,
                      Raised("delete_document"))
          /\ UNCHANGED vectorstore
       \/ /\ ids = <<>>
          /\ Complete(c, "delete_document", doc_id, <<get>>,
                      Returned("delete_document", "None"))
          /\ UNCHANGED vectorstore
       \/ /\ ids # <<>>
          /\ Complete(c, "delete_document", doc_id, <<get, Failed(delete)>>,
                      Raised("delete_document"))
          /\ UNCHANGED vectorstore
       \/ /\ ids # <<>>
          /\ Complete(c, "delete_document", doc_id, <<get, delete>>,
                      Returned("delete_document", "None"))
          /\ vectorstore' = Delete(vectorstore, ids)

---------------------------------------------------------------------------
(* Question generator: the LLM response is a string over a small alphabet, *)
(* one character per element.  "a" and "b" stand for two well-formed JSON  *)
(* objects; outside the bracketed span they are just prose.                *)

MaxLen == 5
MaxNum == 2

Alphabet == {"[", "]", ",", "a", "b"}
Objects == {"a", "b"}
Responses == SeqsUpTo(Alphabet, MaxLen)
NumQuestions == 0..MaxNum

\* str.find(ch): the 0-based index of the first occurrence, -1 when absent
Find(response, ch) ==
    IF \E i \in 1..Len(response) : response[i] = ch
    THEN (CHOOSE i \in 1..Len(response) :
            /\ response[i] = ch
            /\ \A j \in 1..(i - 1) : response[j] # ch) - 1
    ELSE -1

\* faulty variant: the first occurrence is taken instead of the last
FindInsteadOfRFind(response, ch) == Find(response, ch)

\* str.rfind(ch): the 0-based index of the last occurrence, -1 when absent
RFind(response, ch) ==
    IF \E i \in 1..Len(response) : response[i] = ch
    THEN (CHOOSE i \in 1..Len(response) :
            /\ response[i] = ch
            /\ \A j \in (i + 1)..Len(response) : response[j] # ch) - 1
    ELSE -1

\* response[start:end] for 0 <= start < end <= len(response)
StrSlice(response, start, end) == SubSeq(response, start + 1, end)

\* json.loads: a value is an object or an array of values separated by commas;
\* the whole text must be one value.  The result is [ok, value, next], with
\* next the 1-based position after the value.
JsonError == [ok |-> FALSE, value |-> [error |-> "JSONDecodeError"], next |-> 0]
JsonValue(value, next) == [ok |-> TRUE, value |-> value, next |-> next]

RECURSIVE ParseValue(_, _)
RECURSIVE ParseElements(_, _, _)
ParseValue(text, i) ==
    IF i > Len(text) THEN JsonError
    ELSE IF text[i] \in Objects THEN JsonValue([object |-> text[i]], i + 1)
    ELSE IF text[i] = "[" THEN
        IF i + 1 <= Len(text) /\ text[i + 1] = "]"
        THEN JsonValue([array |-> <<>>], i + 2)
        ELSE ParseElements(text, i + 1, <<>>)
    ELSE JsonError

\* the elements of an array from position i on, a value being due at i
ParseElements(text, i, elements) ==
    LET v == ParseValue(text, i) IN
    IF ~v.ok THEN JsonError
    ELSE LET more == Append(elements, v.value) IN
         IF v.next > Len(text) THEN JsonError
         ELSE IF text[v.next] = "]" THEN JsonValue([array |-> more], v.next + 1)
         ELSE IF text[v.next] = "," THEN ParseElements(text, v.next + 1, more)
         ELSE JsonError

JsonLoads(text) ==
    LET v == ParseValue(text, 1) IN
    IF v.ok /\ v.next = Len(text) + 1 THEN v ELSE JsonError

\* QuestionGenerator._parse_json_response: the list parsed from the span
\* between the first '[' and the last ']', [] when there is none or it does
\* not parse
parse_json_response(response) ==
    LET start == Find(response, "[")
        end == RFind(response, "]") + 1
    IN IF start # -1 /\ end > start
       THEN LET parsed == JsonLoads(StrSlice(response, start, end)) IN
            IF parsed.ok THEN parsed.value.array ELSE <<>>
       ELSE <<>>

\* [f(i) for i in range(num_questions)]
generate_fallback_assignment(num_questions) ==
    [k \in 1..num_questions |->
        LET i == k - 1 IN
        [question_number |-> i + 1,
         question |-> "Question " \o ToString(i + 1) \o
            ": Based on the provided content, explain [topic] with relevant examples.",
         type |-> IF i % 2 = 0 THEN "theory" ELSE "analytical",
         marks |-> 5,
         marking_scheme |-> "Refer to content for detailed marking",
         sample_answer |->
            "Answer should cover key concepts from the provided material"]]

\* faulty variant: the fallback MCQs are numbered from 0
generate_fallback_mcqs_from_zero(num_questions) ==
    [k \in 1..num_questions |->
        LET i == k - 1 IN
        [question_number |-> i,
         question |-> "Question " \o ToString(i) \o " from content",
         options |-> [A |-> "A", B |-> "B", C |-> "C", D |-> "D"],
         correct_answer |-> "A",
         explanation |-> "Refer to content for explanation"]]

generate_fallback_mcqs(num_questions) ==
    [k \in 1..num_questions |->
        LET i == k - 1 IN
        [question_number |-> i + 1,
         question |-> "Question " \o ToString(i + 1) \o " from content",
         options |-> [A |-> "A", B |-> "B", C |-> "C", D |-> "D"],
         correct_answer |-> "A",
         explanation |-> "Refer to content for explanation"]]

generate_fallback_viva(num_questions) ==
    [k \in 1..num_questions |->
        LET i == k - 1 IN
        [question_number |-> i + 1,
         question |-> "Explain a key concept from the provided content.",
         type |-> "conceptual",
         key_points |-> <<"Point 1", "Point 2">>,
         difficulty |-> "medium"]]

\* `questions = parse(result); if not questions: questions = fallback`
QuestionsOr(response, fallback) ==
    LET questions == parse_json_response(response) IN
    IF questions = <<>> THEN fallback ELSE questions

\* faulty variant: a failed LLM call is answered with the fallback list
GenerateMasksFailure(c, op, num_questions, fallback) ==
    LET issued == ExternalCall("llm_generate", <<>>, num_questions, <<>>) IN
    /\ Idle(c)
    /\ UNCHANGED vectorstore
    /\ \/ Complete(c, op, num_questions, <<Failed(issued)>>, Returned(op, fallback))
       \/ \E response \in Responses :
            Complete(c, op, num_questions, <<Responded(issued, response)>>,
                     Returned(op, QuestionsOr(response, fallback)))

\* the shape shared by the three generate_* operations: one LLM call, which
\* raises or returns a text
Generate(c, op, num_questions, fallback) ==
    LET issued == ExternalCall("llm_generate", <<>>, num_questions, <<>>) IN
    /\ Idle(c)
    /\ UNCHANGED vectorstore
    /\ \/ Complete(c, op, num_questions, <<Failed(issued)>>, Raised(op))
       \/ \E response \in Responses :
            Complete(c, op, num_questions, <<Responded(issued, response)>>,
                     Returned(op, QuestionsOr(response, fallback)))

GenerateAssignment(c, num_questions) ==
    Generate(c, "generate_assignment", num_questions,
             generate_fallback_assignment(num_questions))

GenerateMcqs(c, num_questions) ==
    Generate(c, "generate_mcqs", num_questions,
             generate_fallback_mcqs(num_questions))

GenerateVivaQuestions(c, num_questions) ==
    Generate(c, "generate_viva_questions", num_questions,
             generate_fallback_viva(num_questions))

---------------------------------------------------------------------------
\* the caller takes the result; the client is free for its next operation
Finish(c) ==
    /\ pc[c] = "done"
    /\ pc' = [pc EXCEPT ![c] = "idle"]
    /\ call' = [call EXCEPT ![c] = NoCall]
    /\ trace' = [trace EXCEPT ![c] = <<>>]
    /\ ret' = [ret EXCEPT ![c] = NoRet]
    /\ UNCHANGED <<store, vectorstore, ncalls, answered>>

---------------------------------------------------------------------------
(* The engine specification: operations are issued one at a time (client   *)
(* c1 runs each one to completion before the next), as the portal page     *)
(* does with run_async.                                                    *)

Init ==
    /\ store = <<>>
    /\ vectorstore \in {Collection(mds) : mds \in SeqsUpTo(ChunkMetas, MaxChunks)}
    /\ pc = [c \in Clients |-> "idle"]
    /\ call = [c \in Clients |-> NoCall]
    /\ trace = [c \in Clients |-> <<>>]
    /\ ret = [c \in Clients |-> NoRet]
    /\ ncalls = 0
    /\ answered = <<>>

Next ==
    \/ \E query \in Queries, session_id \in SessionIds :
         AnswerQueryBegin("c1", query, session_id)
    \/ Reformulate("c1")
    \/ Retrieve("c1")
    \/ Answer("c1")
    \/ AddUserMessage("c1")
    \/ AddAIMessage("c1")
    \/ AnswerQueryReturn("c1")
    \/ \E doc_id \in RequestedDocIds : GetDocumentsContext("c1", <<doc_id>>)
    \/ CheckVectorstore("c1")
    \/ CheckLLM("c1")
    \/ \E doc_id \in RequestedDocIds : DeleteDocument("c1", doc_id)
    \/ Finish("c1")

Spec == Init /\ [][Next]_vars

---------------------------------------------------------------------------
(* The document-context specification: collections large enough for the    *)
(* cap of get_documents_context to matter.  A collection is a few          *)
(* arbitrary chunks, then a run of doc1 chunks, then a few arbitrary ones. *)

MaxBulk == 21
MaxEdge == 1

Bulk(n) == [i \in 1..n |-> [doc_id |-> "doc1", source |-> "a.pdf"]]

InitCtx ==
    /\ store = <<>>
    /\ vectorstore \in {Collection(pre \o Bulk(n) \o suf) :
            pre \in SeqsUpTo(ChunkMetas, MaxEdge),
            n \in 0..MaxBulk,
            suf \in SeqsUpTo(ChunkMetas, MaxEdge)}
    /\ pc = [c \in Clients |-> "idle"]
    /\ call = [c \in Clients |-> NoCall]
    /\ trace = [c \in Clients |-> <<>>]
    /\ ret = [c \in Clients |-> NoRet]
    /\ ncalls = 0
    /\ answered = <<>>

NextCtx ==
    \/ \E document_ids \in DocumentIdLists : GetDocumentsContext("c1", document_ids)
    \/ CheckVectorstore("c1")
    \/ \E doc_id \in RequestedDocIds : DeleteDocument("c1", doc_id)
    \/ Finish("c1")

SpecCtx == InitCtx /\ [][NextCtx]_vars

---------------------------------------------------------------------------
(* The question-generator specification *)

InitQG ==
    /\ store = <<>>
    /\ vectorstore = <<>>
    /\ pc = [c \in Clients |-> "idle"]
    /\ call = [c \in Clients |-> NoCall]
    /\ trace = [c \in Clients |-> <<>>]
    /\ ret = [c \in Clients |-> NoRet]
    /\ ncalls = 0
    /\ answered = <<>>

NextQG ==
    \/ \E num_questions \in NumQuestions : GenerateAssignment("c1", num_questions)
    \/ \E num_questions \in NumQuestions : GenerateMcqs("c1", num_questions)
    \/ \E num_questions \in NumQuestions : GenerateVivaQuestions("c1", num_questions)
    \/ Finish("c1")

SpecQG == InitQG /\ [][NextQG]_vars

---------------------------------------------------------------------------
(* The concurrent specifications.  init_services is cached, so every UI    *)
(* session's script thread calls answer_query on the same RAGEngine and    *)
(* the same self.store, without a lock.  get_session_history is three      *)
(* steps here: the membership test, the insertion of a new history, and    *)
(* the lookup whose result the call keeps and loads its messages from.     *)

InFlight(c) == pc[c] \notin {"idle", "done"}

\* rag_engine.py:125, `if session_id not in self.store`
SessionLookup(c, query, session_id) ==
    /\ Idle(c)
    /\ ncalls < MaxCalls
    /\ call' = [call EXCEPT ![c] = [NoCall EXCEPT !.op = "answer_query",
                                       !.query = query,
                                       !.session_id = session_id]]
    /\ pc' = [pc EXCEPT ![c] = IF session_id \in DOMAIN store
                               THEN "session_get" ELSE "session_create"]
    /\ trace' = [trace EXCEPT ![c] = <<>>]
    /\ ret' = [ret EXCEPT ![c] = NoRet]
    /\ ncalls' = ncalls + 1
    /\ UNCHANGED <<store, vectorstore, answered>>

\* client d resolved the history object now in store[session_id] and has
\* appends to it ahead
HoldsHistory(d, session_id) ==
    /\ call[d].op = "answer_query"
    /\ call[d].session_id = session_id
    /\ pc[d] \in {"reformulate", "retrieve", "answer", "add_user", "add_ai"}
    /\ ~call[d].detached

\* rag_engine.py:126, `self.store[session_id] = ChatMessageHistory()`: the
\* new object replaces whatever another thread has put there since the test
SessionCreate(c) ==
    /\ pc[c] = "session_create"
    /\ LET session_id == call[c].session_id IN
         /\ store' = (session_id :> <<>>) @@ store
         /\ call' = [d \in Clients |->
                        IF d # c /\ HoldsHistory(d, session_id)
                        THEN [call[d] EXCEPT !.detached = TRUE] ELSE call[d]]
    /\ pc' = [pc EXCEPT ![c] = "session_get"]
    /\ UNCHANGED <<vectorstore, trace, ret, ncalls, answered>>

\* rag_engine.py:127, `return self.store[session_id]`, and the load of its
\* messages as chat_history
SessionGet(c) ==
    /\ pc[c] = "session_get"
    /\ call' = [call EXCEPT ![c].chat_history = store[call[c].session_id]]
    /\ pc' = [pc EXCEPT ![c] = "reformulate"]
    /\ UNCHANGED <<store, vectorstore, trace, ret, ncalls, answered>>

\* a fresh engine over a store of one chunk
InitConc ==
    /\ store = <<>>
    /\ vectorstore = Collection(<<[doc_id |-> "doc1", source |-> "a.pdf"]>>)
    /\ pc = [c \in Clients |-> "idle"]
    /\ call = [c \in Clients |-> NoCall]
    /\ trace = [c \in Clients |-> <<>>]
    /\ ret = [c \in Clients |-> NoRet]
    /\ ncalls = 0
    /\ answered = <<>>

\* the rest of answer_query, by client c
AnswerQueryStep(c) ==
    \/ SessionCreate(c)
    \/ SessionGet(c)
    \/ Reformulate(c)
    \/ Retrieve(c)
    \/ Answer(c)
    \/ AddUserMessage(c)
    \/ AddAIMessage(c)
    \/ AnswerQueryReturn(c)
    \/ Finish(c)

\* any interleaving of the clients' calls
NextConc ==
    \E c \in Clients :
        \/ \E query \in Queries, session_id \in SessionIds :
             SessionLookup(c, query, session_id)
        \/ AnswerQueryStep(c)

SpecConc == InitConc /\ [][NextConc]_vars

\* no other call is in flight on session_id
SessionFree(c, session_id) ==
    \A d \in Clients \ {c} :
        (InFlight(d) /\ call[d].op = "answer_query") => call[d].session_id # session_id

\* any interleaving in which the calls in flight are on different sessions
NextDistinct ==
    \E c \in Clients :
        \/ \E query \in Queries, session_id \in SessionIds :
             /\ SessionFree(c, session_id)
             /\ SessionLookup(c, query, session_id)
        \/ AnswerQueryStep(c)

SpecDistinct == InitConc /\ [][NextDistinct]_vars

---------------------------------------------------------------------------
(* Claims about the engine *)

\* the turns that the answered calls on session_id leave behind, in call order
RECURSIVE TurnsOf(_, _)
TurnsOf(session_id, calls) ==
    IF calls = <<>> THEN <<>>
    ELSE (IF Head(calls).session_id = session_id
          THEN <<HumanMessage(Head(calls).query), AIMessage(Head(calls).answer)>>
          ELSE <<>>) \o TurnsOf(session_id, Tail(calls))

\* a call on session_id is between its first append and its return
Appending(session_id) ==
    \E c \in Clients : call[c].session_id = session_id /\ pc[c] \in {"add_ai", "sources"}

AnswerQueryDone(c) == pc[c] = "done" /\ call[c].op = "answer_query"

HistoriesAreAnsweredTurns ==
    \A s \in DOMAIN store : ~Appending(s) => store[s] = TurnsOf(s, answered)

HistoriesOnlyGrow ==
    /\ DOMAIN store \subseteq DOMAIN store'
    /\ \A s \in DOMAIN store :
         /\ Len(store'[s]) >= Len(store[s])
         /\ SubSeq(store'[s], 1, Len(store[s])) = store[s]
    /\ \A s \in DOMAIN store' \ DOMAIN store : store'[s] = <<>>

\* C1: every session's history is exactly the (user = query, assistant = answer)
\* pairs of the answer_query calls that succeeded on that session, in call
\* order; a session starts with an empty history; no step ever removes a
\* session or a turn.
C1_SessionHistories == []HistoriesAreAnsweredTurns /\ [][HistoriesOnlyGrow]_vars

\* two successful calls on one session have left it four turns
C1_Witness ==
    \E s \in DOMAIN store :
        /\ Len(store[s]) = 4
        /\ Len(answered) = 2
        /\ pc["c1"] = "idle"

\* C2 (as claimed): the reformulation LLM call is issued iff the loaded history
\* is non-empty; with an empty history the retriever gets the user's query
\* unchanged; with a non-empty one the reformulation call receives the full
\* history and its output is the retrieval query.
C2_ReformulateOnlyWithHistory ==
    \A c \in Clients : call[c].op = "answer_query" =>
        \A i \in DOMAIN trace[c] :
            /\ trace[c][i].kind = "llm_reformulate" =>
                 /\ call[c].chat_history # <<>>
                 /\ trace[c][i].chat_history = call[c].chat_history
            /\ trace[c][i].kind = "retriever" =>
                 IF call[c].chat_history = <<>>
                 THEN trace[c][i].input = call[c].query
                 ELSE /\ \E j \in 1..(i - 1) : trace[c][j].kind = "llm_reformulate"
                      /\ trace[c][i].input = call[c].standalone

\* C3: when an external call of answer_query fails, the call raises and hands
\* back no value, no external call was issued twice, nothing was issued after
\* the failure, and no session's history got a turn.
C3_FailureAborts ==
    \A c \in Clients :
        (AnswerQueryDone(c) /\ \E i \in DOMAIN trace[c] : trace[c][i].outcome = "failed") =>
            /\ ret[c] = Raised("answer_query")
            /\ \A i, j \in DOMAIN trace[c] : i # j => trace[c][i].kind # trace[c][j].kind
            /\ \A i \in DOMAIN trace[c] : trace[c][i].outcome = "failed" => i = Len(trace[c])
            /\ store[call[c].session_id] = call[c].chat_history
            /\ \A s \in DOMAIN store : store[s] = TurnsOf(s, answered)

\* the answer LLM call failed on a session that already had turns
C3_Witness ==
    /\ AnswerQueryDone("c1")
    /\ Len(trace["c1"]) = 3
    /\ trace["c1"][3].outcome = "failed"
    /\ call["c1"].chat_history # <<>>
    /\ call["c1"].context # <<>>

\* C4: a successful answer_query returns sources without duplicates whose set
\* is the set of `source` values of the retrieved chunks, and mode "qa".
C4_Sources ==
    \A c \in Clients :
        (AnswerQueryDone(c) /\ ret[c].status = "ok") =>
            LET sources == ret[c].value.sources
                context == call[c].context
            IN /\ \A i, j \in DOMAIN sources : i # j => sources[i] # sources[j]
               /\ Range(sources) = {context[i].metadata.source : i \in DOMAIN context}
               /\ ret[c].value.mode = "qa"

\* two chunks with the same source were retrieved
C4_Witness ==
    /\ AnswerQueryDone("c1")
    /\ ret["c1"].status = "ok"
    /\ Len(call["c1"].context) = 2
    /\ Len(ret["c1"].value.sources) = 1

---------------------------------------------------------------------------
(* Claims about the question generator *)

GenerateOps == {"generate_assignment", "generate_mcqs", "generate_viva_questions"}

GenerateDone(c) == pc[c] = "done" /\ call[c].op \in GenerateOps

FallbackOf(op, num_questions) ==
    CASE op = "generate_assignment" -> generate_fallback_assignment(num_questions)
      [] op = "generate_mcqs" -> generate_fallback_mcqs(num_questions)
      [] op = "generate_viva_questions" -> generate_fallback_viva(num_questions)

\* the text has a '[' with a ']' somewhere after it
HasBrackets(response) ==
    \E i, j \in 1..Len(response) : i < j /\ response[i] = "[" /\ response[j] = "]"

\* the span from the first '[' to the last ']'
BracketSpan(response) ==
    LET first == CHOOSE i \in 1..Len(response) :
                    response[i] = "[" /\ \A k \in 1..Len(response) : response[k] = "[" => i <= k
        last == CHOOSE j \in 1..Len(response) :
                    response[j] = "]" /\ \A k \in 1..Len(response) : response[k] = "]" => k <= j
    IN SubSeq(response, first, last)

Unparseable(response) ==
    ~HasBrackets(response) \/ ~JsonLoads(BracketSpan(response)).ok

\* C5 (as claimed): the generate_* operations return the fallback list when the
\* text has no '[' followed by a later ']' or the span from the first '[' to
\* the last ']' is not valid JSON, and in every other case the parsed array,
\* unmodified and in order, whatever its length.
C5_FallbackOnlyWhenUnparseable ==
    \A c \in Clients :
        (GenerateDone(c) /\ ret[c].status = "ok") =>
            LET response == trace[c][1].response IN
            ret[c].value = IF Unparseable(response)
                           THEN FallbackOf(call[c].op, call[c].arg)
                           ELSE JsonLoads(BracketSpan(response)).value.array

\* C5 (amended): the fallback list is returned exactly when the text is
\* unparseable or its span parses to the empty array; every non-empty parsed
\* array is returned unmodified and in order, whatever its length.
C5_FallbackWhenUnparseableOrEmpty ==
    \A c \in Clients :
        (GenerateDone(c) /\ ret[c].status = "ok") =>
            LET response == trace[c][1].response IN
            ret[c].value =
                IF Unparseable(response) THEN FallbackOf(call[c].op, call[c].arg)
                ELSE IF JsonLoads(BracketSpan(response)).value.array = <<>>
                     THEN FallbackOf(call[c].op, call[c].arg)
                     ELSE JsonLoads(BracketSpan(response)).value.array

\* a two-element array came back for num_questions = 1 and was returned as is
C5_Witness ==
    /\ GenerateDone("c1")
    /\ call["c1"].op = "generate_assignment"
    /\ call["c1"].arg = 1
    /\ ret["c1"].status = "ok"
    /\ trace["c1"][1].response = <<"[", "b", ",", "a", "]">>
    /\ ret["c1"].value = <<[object |-> "b"], [object |-> "a"]>>

\* C6: on an unparseable response every generate_* operation returns (does not
\* raise) exactly num_questions fallback items numbered 1..num_questions; a
\* fallback MCQ has exactly the options A, B, C, D and correct_answer "A".
C6_FallbackShape ==
    \A c \in Clients :
        (/\ GenerateDone(c)
         /\ trace[c][1].outcome = "ok"
         /\ Unparseable(trace[c][1].response)) =>
            /\ ret[c].status = "ok"
            /\ Len(ret[c].value) = call[c].arg
            /\ \A k \in 1..Len(ret[c].value) :
                 /\ ret[c].value[k].question_number = k
                 /\ call[c].op = "generate_mcqs" =>
                      /\ DOMAIN ret[c].value[k].options = {"A", "B", "C", "D"}
                      /\ ret[c].value[k].correct_answer = "A"

\* generate_mcqs with num_questions = 2 on a text without brackets
C6_Witness ==
    /\ GenerateDone("c1")
    /\ call["c1"].op = "generate_mcqs"
    /\ call["c1"].arg = 2
    /\ trace["c1"][1].outcome = "ok"
    /\ trace["c1"][1].response = <<"a", "b">>
    /\ Len(ret["c1"].value) = 2

\* C7: when the LLM call of a generate_* operation fails, the operation raises
\* and returns no list; a list is returned only after the one LLM call has
\* returned a text.
C7_ProviderFaultPropagates ==
    \A c \in Clients : GenerateDone(c) =>
        /\ Len(trace[c]) = 1
        /\ trace[c][1].kind = "llm_generate"
        /\ trace[c][1].outcome = "failed" => ret[c] = Raised(call[c].op)
        /\ ret[c].status = "ok" => trace[c][1].outcome = "ok"

\* the LLM call of generate_viva_questions failed
C7_Witness ==
    /\ GenerateDone("c1")
    /\ call["c1"].op = "generate_viva_questions"
    /\ trace["c1"][1].outcome = "failed"
    /\ ret["c1"].status = "raised"

---------------------------------------------------------------------------
(* Claims about the document operations and the health checks *)

OpDone(c, op) == pc[c] = "done" /\ call[c].op = op

\* client c performs the (atomic) operation op in this step
Performs(c, op) == pc[c] = "idle" /\ call'[c].op = op

\* the chunks of the store whose doc_id is among ids, in store order
ChunksOf(vs, ids) == SelectSeq(vs, LAMBDA ch : ch.metadata.doc_id \in ids)

\* texts[1], blank line, texts[2], blank line, ..., texts[n]
RECURSIVE BlankLineSeparated(_, _)
BlankLineSeparated(chunks, n) ==
    IF n = 0 THEN ""
    ELSE IF n = 1 THEN chunks[1].page_content
    ELSE BlankLineSeparated(chunks, n - 1) \o "\n\n" \o chunks[n].page_content

ContextIsFirstTwenty ==
    \A c \in Clients :
        (OpDone(c, "get_documents_context") /\ trace[c][1].outcome = "ok") =>
            LET chunks == ChunksOf(vectorstore, Range(call[c].arg)) IN
            /\ ret[c].status = "ok"
            /\ ret[c].value = BlankLineSeparated(chunks, Min(20, Len(chunks)))
            /\ (vectorstore = <<>> \/ chunks = <<>>) => ret[c].value = ""

ContextLeavesStore ==
    \A c \in Clients : Performs(c, "get_documents_context") => vectorstore' = vectorstore

\* C8: when the collection is read, get_documents_context returns the texts
\* of the first 20 chunks, in store order, whose doc_id is in document_ids,
\* joined by "\n\n"; the empty string when the store is empty or nothing
\* matches; and it never modifies the store.
C8_DocumentsContext == []ContextIsFirstTwenty /\ [][ContextLeavesStore]_vars

\* more than 20 chunks match, one chunk of another document precedes them
C8_Witness ==
    /\ OpDone("c1", "get_documents_context")
    /\ trace["c1"][1].outcome = "ok"
    /\ call["c1"].arg = <<"docX", "doc1">>
    /\ Len(ChunksOf(vectorstore, {"doc1"})) > 20
    /\ vectorstore[1].metadata.doc_id = "doc2"

DeleteRemovesExactlyTheDocument ==
    \A c \in Clients : Performs(c, "delete_document") =>
        LET doc_id == call'[c].arg
            kept == SelectSeq(vectorstore, LAMBDA ch : ch.metadata.doc_id # doc_id)
            faulted == \E i \in DOMAIN trace'[c] : trace'[c][i].outcome = "failed"
            deletes == {i \in DOMAIN trace'[c] : trace'[c][i].kind = "vectorstore_delete"}
        IN /\ ret'[c].status = IF faulted THEN "raised" ELSE "ok"
           /\ ~faulted => vectorstore' = kept
           /\ kept = vectorstore => (vectorstore' = vectorstore /\ deletes = {})

\* C9: delete_document removes exactly the chunks whose doc_id equals the
\* argument and leaves every other chunk as it was; with no matching chunk it
\* issues no delete and leaves the store unmodified; a failing lookup or
\* delete is raised to the caller.
C9_DeleteDocument == [][DeleteRemovesExactlyTheDocument]_vars

\* a delete was issued and went through, and chunks of another document remain
C9_Witness ==
    /\ OpDone("c1", "delete_document")
    /\ ret["c1"].status = "ok"
    /\ Len(trace["c1"]) = 2
    /\ vectorstore # <<>>

ChecksReportStatus ==
    \A c \in Clients :
        /\ OpDone(c, "check_vectorstore") =>
             /\ ret[c].status = "ok"
             /\ ret[c].value = IF trace[c][1].outcome = "failed" THEN "unavailable"
                               ELSE "operational (" \o ToString(Len(vectorstore))
                                        \o " chunks)"
        /\ OpDone(c, "check_llm") =>
             /\ ret[c].status = "ok"
             /\ ret[c].value = IF trace[c][1].outcome = "failed" THEN "unavailable"
                               ELSE "operational"

ChecksLeaveState ==
    \A c \in Clients :
        (Performs(c, "check_vectorstore") \/ Performs(c, "check_llm")) =>
            /\ store' = store
            /\ vectorstore' = vectorstore

\* C10: check_vectorstore and check_llm never raise: a failing provider call
\* gives "unavailable", otherwise "operational (<n> chunks)" with n the chunk
\* count, resp. "operational"; neither changes the histories or the store.
C10_HealthChecks == []ChecksReportStatus /\ [][ChecksLeaveState]_vars

\* the count failed on a non-empty store that has sessions
C10_Witness ==
    /\ OpDone("c1", "check_vectorstore")
    /\ trace["c1"][1].outcome = "failed"
    /\ ret["c1"].value = "unavailable"
    /\ vectorstore # <<>>
    /\ DOMAIN store # {}

\* C11: a failure of the vector-store call inside get_documents_context is
\* raised to the caller; the empty string is returned only when the call
\* went through and the store is empty or no chunk matches document_ids.
C11_ContextFaultPropagates ==
    \A c \in Clients : OpDone(c, "get_documents_context") =>
        /\ trace[c][1].outcome = "failed" => ret[c].status = "raised"
        /\ (ret[c].status = "ok" /\ ret[c].value = "") =>
              /\ trace[c][1].outcome = "ok"
              /\ \/ vectorstore = <<>>
                 \/ ChunksOf(vectorstore, Range(call[c].arg)) = <<>>

---------------------------------------------------------------------------
(* Claims about concurrent calls *)

\* the session a step of client c works on
StepSession(c) == IF pc[c] = "idle" THEN call'[c].session_id ELSE call[c].session_id

OtherHistoriesUntouched ==
    \A c \in Clients : pc'[c] # pc[c] =>
        \A s \in DOMAIN store : s # StepSession(c) =>
            (s \in DOMAIN store' /\ store'[s] = store[s])

\* the call of client c has loaded its history and not yet returned
Loaded(c) ==
    pc[c] \in {"reformulate", "retrieve", "answer", "add_user", "add_ai", "sources"}

HistoriesAsIfAlone ==
    /\ \A s \in DOMAIN store : ~Appending(s) => store[s] = TurnsOf(s, answered)
    /\ \A c \in Clients : Loaded(c) =>
         /\ ~call[c].detached
         /\ call[c].chat_history = TurnsOf(call[c].session_id, answered)
         /\ \A i \in DOMAIN trace[c] :
              trace[c][i].kind \in {"llm_reformulate", "llm_answer"} =>
                 trace[c][i].chat_history = TurnsOf(call[c].session_id, answered)

\* C12: when the calls in flight are on different sessions, a step of a call
\* changes no history but that of its own session, the history a call loads
\* and hands to the LLM is the turns of the calls answered before on its own
\* session, and a session's history is those turns in call order: what the
\* calls of that session give when run alone.
C12_DifferentSessionsIndependent ==
    []HistoriesAsIfAlone /\ [][OtherHistoriesUntouched]_vars

\* two calls on different sessions overlapped and both appended their turns
C12_Witness ==
    /\ pc["c1"] = "sources" /\ pc["c2"] = "sources"
    /\ call["c1"].session_id = "s1" /\ call["c2"].session_id = "s2"
    /\ store["s1"] = <<HumanMessage(call["c1"].query), AIMessage(call["c1"].answer)>>
    /\ store["s2"] = <<HumanMessage(call["c2"].query), AIMessage(call["c2"].answer)>>

\* the LLM calls of a call are made with the history as the call loaded it
SnapshotUsed ==
    \A c \in Clients : call[c].op = "answer_query" =>
        \A i \in DOMAIN trace[c] :
            trace[c][i].kind \in {"llm_reformulate", "llm_answer"} =>
                trace[c][i].chat_history = call[c].chat_history

\* the clients in some order
ClientSeq == <<"c1", "c2">>

\* what the call of client c has appended so far, if it is on session_id
AppendedBy(c, session_id) ==
    IF call[c].op = "answer_query" /\ call[c].session_id = session_id
    THEN IF pc[c] = "add_ai" THEN <<HumanMessage(call[c].query)>>
         ELSE IF pc[c] = "sources"
              THEN <<HumanMessage(call[c].query), AIMessage(call[c].answer)>>
              ELSE <<>>
    ELSE <<>>

\* per call on session_id, answered or appending, the messages it appended
PartsOf(session_id) ==
    LET calls == SelectSeq(answered, LAMBDA r : r.session_id = session_id) IN
    [i \in 1..Len(calls) |->
        <<HumanMessage(calls[i].query), AIMessage(calls[i].answer)>>]
    \o [i \in 1..Len(ClientSeq) |-> AppendedBy(ClientSeq[i], session_id)]

\* h is an interleaving of some of the sequences in all, each kept in its
\* order and taken whole or not at all; rest is what is still to be placed
RECURSIVE IsMerge(_, _, _)
IsMerge(h, rest, all) ==
    IF h = <<>>
    THEN \A i \in DOMAIN all : rest[i] = <<>> \/ rest[i] = all[i]
    ELSE \E i \in DOMAIN all :
            /\ rest[i] # <<>>
            /\ Head(rest[i]) = Head(h)
            /\ IsMerge(Tail(h), [rest EXCEPT ![i] = Tail(@)], all)

TurnsInterleave ==
    \A s \in DOMAIN store : LET parts == PartsOf(s) IN IsMerge(store[s], parts, parts)

\* C13: concurrent calls on one session are not atomic on its history: each
\* call's reformulation and answer use the history as the call loaded it,
\* whatever the other call appends meanwhile, and the history is an
\* interleaving of the calls' (user, assistant) pairs, not a sequence of them.
C13_SameSessionNotAtomic == SnapshotUsed /\ TurnsInterleave

\* both calls loaded the empty history, so neither saw the other's turns;
\* both pairs are in the history, and the two user turns come first
C13_Witness ==
    /\ AnswerQueryDone("c1") /\ ret["c1"].status = "ok"
    /\ AnswerQueryDone("c2") /\ ret["c2"].status = "ok"
    /\ call["c1"].session_id = "s1" /\ call["c2"].session_id = "s1"
    /\ call["c1"].query = "q1" /\ call["c2"].query = "q2"
    /\ call["c1"].chat_history = <<>> /\ call["c2"].chat_history = <<>>
    /\ trace["c2"][3].kind = "llm_answer" /\ trace["c2"][3].chat_history = <<>>
    /\ store["s1"] = <<HumanMessage("q1"), HumanMessage("q2"),
                       AIMessage(call["c1"].answer), AIMessage(call["c2"].answer)>>

====
